---------------------------- MODULE Spec2Model ----------------------------
(* Face tracker of show_video.py: the overlap metric calculate_IoU, the   *)
(* registry update identify_valid_faces and the frame loop of start_feed. *)
EXTENDS Integers, Sequences, FiniteSets, TLC

(* ---------------------------------------------------------------------- *)
(* Bounds of the model                                                     *)
(* ---------------------------------------------------------------------- *)
MaxX == 2          \* detections of the tracker sit at x in 0..MaxX
MaxDetections == 4 \* detections per session, over all its batches
MaxFrames == 3     \* frames read per session
MaxSkip == 2       \* frame_skip_rate in 1..MaxSkip
MaxCoord == 1      \* calculate_IoU is exercised with x, y in -MaxCoord..MaxCoord
MaxSide == 2       \* ... and with w, h in 0..MaxSide
MaxDim == 2        \* resize is exercised with images and numbers up to MaxDim

(* ---------------------------------------------------------------------- *)
(* Values                                                                  *)
(* ---------------------------------------------------------------------- *)
\* A box is the tuple (x, y, w, h).
\* A Python float that is the quotient of two small integers is kept as the
\* reduced fraction num/den with den > 0: two quotients are the same float
\* exactly when their reduced fractions agree.
Float(n, d) == [num |-> n, den |-> d]

Zero == Float(0, 1)
One == Float(1, 1)

\* The value standing for the exception raised by a division by zero.
ZeroDivisionError == [num |-> 0, den |-> 0]

\* The literal 0.2 of "if iou > 0.2": the double nearest to 1/5, which is
\* also what i / float(u) rounds to when 5 * i = u.
Threshold == Float(1, 5)

\* The literal 2 of "if count > 2".
RenderCount == 2

Max(a, b) == IF a >= b THEN a ELSE b
Min(a, b) == IF a <= b THEN a ELSE b
Abs(a) == IF a < 0 THEN -a ELSE a

RECURSIVE GCD(_, _)
GCD(a, b) == IF b = 0 THEN a ELSE GCD(b, a % b)

\* n / float(d)
FloatDiv(n, d) ==
    IF d = 0 THEN ZeroDivisionError
    ELSE LET g == GCD(Abs(n), Abs(d))
             s == IF d < 0 THEN -1 ELSE 1
         IN  Float((s * n) \div g, (s * d) \div g)

\* f >= g on floats
GreaterOrEqual(f, g) == f.num * g.den >= g.num * f.den

\* f > g on floats
GreaterThan(f, g) == f.num * g.den > g.num * f.den

(* ---------------------------------------------------------------------- *)
(* calculate_IoU                                                           *)
(* ---------------------------------------------------------------------- *)
\* An intersection area without the clamping of width and height to >= 0.
IntersectionAreaUnclamped(boxA, boxB) ==
    LET i_x_top_left == Max(boxA[1], boxB[1])
        i_y_top_left == Max(boxA[2], boxB[2])
        i_x_bottom_right == Min(boxA[1] + boxA[3], boxB[1] + boxB[3])
        i_y_bottom_right == Min(boxA[2] + boxA[4], boxB[2] + boxB[4])
    IN  (i_x_bottom_right - i_x_top_left) * (i_y_bottom_right - i_y_top_left)

IntersectionArea(boxA, boxB) ==
    LET i_x_top_left == Max(boxA[1], boxB[1])
        i_y_top_left == Max(boxA[2], boxB[2])
        i_x_bottom_right == Min(boxA[1] + boxA[3], boxB[1] + boxB[3])
        i_y_bottom_right == Min(boxA[2] + boxA[4], boxB[2] + boxB[4])
        i_width == Max(0, i_x_bottom_right - i_x_top_left)
        i_height == Max(0, i_y_bottom_right - i_y_top_left)
    IN  i_width * i_height

\* A union area that counts the intersection twice.
UnionAreaSum(boxA, boxB) == boxA[3] * boxA[4] + boxB[3] * boxB[4]

\* A union area that takes the first box's area for both boxes.
UnionAreaFirst(boxA, boxB) ==
    boxA[3] * boxA[4] + boxA[3] * boxA[4] - IntersectionArea(boxA, boxB)

UnionArea(boxA, boxB) ==
    LET boxA_area == boxA[3] * boxA[4]
        boxB_area == boxB[3] * boxB[4]
    IN  boxA_area + boxB_area - IntersectionArea(boxA, boxB)

\* calculate_IoU without the test of union_area == 0.
calculate_IoU_unguarded(boxA, boxB) ==
    FloatDiv(IntersectionArea(boxA, boxB), UnionArea(boxA, boxB))

\* calculate_IoU that gives 1.0 for identical boxes whatever their area.
calculate_IoU_identical(boxA, boxB) ==
    LET i_area == IntersectionArea(boxA, boxB)
        union_area == UnionArea(boxA, boxB)
    IN  IF boxA = boxB THEN One
        ELSE IF union_area = 0 THEN Zero
        ELSE FloatDiv(i_area, union_area)

calculate_IoU(boxA, boxB) ==
    LET i_area == IntersectionArea(boxA, boxB)
        union_area == UnionArea(boxA, boxB)
    IN  IF union_area = 0 THEN Zero
        ELSE FloatDiv(i_area, union_area)

(* ---------------------------------------------------------------------- *)
(* identify_valid_faces                                                    *)
(* ---------------------------------------------------------------------- *)
\* A scan without the break: the last eligible tracked face decides.
RECURSIVE ScanTrackerLast(_, _, _)
ScanTrackerLast(face, face_tracker_, i) ==
    IF i > Len(face_tracker_) THEN <<face, 1>>
    ELSE LET later == ScanTrackerLast(face, face_tracker_, i + 1)
         IN  IF later[2] > 1 THEN later
             ELSE IF GreaterThan(calculate_IoU(face, face_tracker_[i][1]), Threshold)
                  THEN <<face, face_tracker_[i][2] + 1>>
                  ELSE later

\* A scan that takes the tracked face at position i whatever its IoU.
ScanTrackerAny(face, face_tracker_, i) ==
    IF i > Len(face_tracker_) THEN <<face, 1>>
    ELSE <<face, face_tracker_[i][2] + 1>>

\* A scan that carries the matched count over without incrementing it.
RECURSIVE ScanTrackerKeep(_, _, _)
ScanTrackerKeep(face, face_tracker_, i) ==
    IF i > Len(face_tracker_) THEN <<face, 1>>
    ELSE IF GreaterThan(calculate_IoU(face, face_tracker_[i][1]), Threshold)
         THEN <<face, Max(1, face_tracker_[i][2])>>
         ELSE ScanTrackerKeep(face, face_tracker_, i + 1)

\* A scan that adds two to the matched count.
RECURSIVE ScanTrackerSkip(_, _, _)
ScanTrackerSkip(face, face_tracker_, i) ==
    IF i > Len(face_tracker_) THEN <<face, 1>>
    ELSE IF GreaterThan(calculate_IoU(face, face_tracker_[i][1]), Threshold)
         THEN <<face, face_tracker_[i][2] + 2>>
         ELSE ScanTrackerSkip(face, face_tracker_, i + 1)

\* The inner for/else of identify_valid_faces: scan the tracked faces from
\* position i on, stop at the first one whose IoU with face is > 0.2.
RECURSIVE ScanTracker(_, _, _)
ScanTracker(face, face_tracker_, i) ==
    IF i > Len(face_tracker_) THEN <<face, 1>>
    ELSE IF GreaterThan(calculate_IoU(face, face_tracker_[i][1]), Threshold)
         THEN <<face, face_tracker_[i][2] + 1>>
         ELSE ScanTracker(face, face_tracker_, i + 1)

\* An update that also scans the entries it has emitted for this batch.
RECURSIVE EmitScanningOwn(_, _, _)
EmitScanningOwn(face_tracker_, new_faces_, k) ==
    IF k = 0 THEN <<>>
    ELSE LET sofar == EmitScanningOwn(face_tracker_, new_faces_, k - 1)
         IN  Append(sofar, ScanTracker(new_faces_[k], face_tracker_ \o sofar, 1))

identify_valid_faces_own(face_tracker_, new_faces_) ==
    EmitScanningOwn(face_tracker_, new_faces_, Len(new_faces_))

\* An update that keeps the registry when nothing was detected.
identify_valid_faces_keep(face_tracker_, new_faces_) ==
    IF new_faces_ = <<>> THEN face_tracker_
    ELSE [k \in 1..Len(new_faces_) |-> ScanTracker(new_faces_[k], face_tracker_, 1)]

\* An update that removes duplicates: a detection equal to an earlier
\* detection of the batch that matched a previous entry starts at 1.
identify_valid_faces_once(face_tracker_, new_faces_) ==
    [k \in 1..Len(new_faces_) |->
        IF \E e \in 1..(k - 1) :
             /\ ScanTracker(new_faces_[e], face_tracker_, 1)[2] > 1
             /\ new_faces_[e] = new_faces_[k]
        THEN <<new_faces_[k], 1>>
        ELSE ScanTracker(new_faces_[k], face_tracker_, 1)]

\* An update that emits its entries in reverse detection order.
identify_valid_faces_reversed(face_tracker_, new_faces_) ==
    [k \in 1..Len(new_faces_) |->
        ScanTracker(new_faces_[Len(new_faces_) + 1 - k], face_tracker_, 1)]

identify_valid_faces(face_tracker_, new_faces_) ==
    [k \in 1..Len(new_faces_) |-> ScanTracker(new_faces_[k], face_tracker_, 1)]

\* A filter that lets count >= 2 through.
RECURSIVE RenderedFacesEarly(_)
RenderedFacesEarly(face_tracker_) ==
    IF face_tracker_ = <<>> THEN <<>>
    ELSE LET e == Head(face_tracker_)
             rest == RenderedFacesEarly(Tail(face_tracker_))
         IN  IF e[2] >= RenderCount THEN <<e[1]>> \o rest ELSE rest

\* [face for (face, count) in face_tracker if count > 2]
RECURSIVE RenderedFaces(_)
RenderedFaces(face_tracker_) ==
    IF face_tracker_ = <<>> THEN <<>>
    ELSE LET e == Head(face_tracker_)
             rest == RenderedFaces(Tail(face_tracker_))
         IN  IF e[2] > RenderCount THEN <<e[1]>> \o rest ELSE rest

(* ---------------------------------------------------------------------- *)
(* Inputs                                                                  *)
(* ---------------------------------------------------------------------- *)
\* What find_faces may return in the tracker's sessions: faces of width 3
\* and height 1 at x in 0..MaxX, and one zero-width box. Faces one step
\* apart have IoU 2/4, two steps apart 1/5, three steps apart 0.
DetBoxes == {<<x, 0, 3, 1>> : x \in 0..MaxX} \cup {<<0, 0, 0, 1>>}

RECURSIVE SeqsUpTo(_, _)
SeqsUpTo(S, n) ==
    IF n = 0 THEN {<<>>}
    ELSE LET shorter == SeqsUpTo(S, n - 1)
         IN  shorter \cup {Append(s, b) : s \in {t \in shorter : Len(t) = n - 1}, b \in S}

\* A session of zero-area detections: zero width, zero height, both, and
\* one real face next to them.
DegBoxes == {<<0, 0, w, h>> : w \in {0, 3}, h \in {0, 1}}

\* A session in which find_faces also returns boxes of negative width or
\* height.
AnyBoxes == {<<0, 0, 3, 1>>, <<1, 0, 3, 1>>, <<0, 0, -3, 1>>, <<1, 0, 3, -1>>}

\* Batches[S][m]: the batches of at most m detections out of S.
Batches == [S \in {DetBoxes, DegBoxes, AnyBoxes} |->
               [m \in 0..MaxDetections |-> SeqsUpTo(S, m)]]

\* The valid boxes calculate_IoU is exercised with.
IoUBoxes == {<<x, y, w, h>> : x \in -MaxCoord..MaxCoord, y \in -MaxCoord..MaxCoord,
                              w \in 0..MaxSide, h \in 0..MaxSide}

(* ---------------------------------------------------------------------- *)
(* ImageProcessor.resize                                                   *)
(* ---------------------------------------------------------------------- *)
\* The Python values resize is called with: None, numbers, strings that
\* int() and float() parse (num is what they parse to) or reject, and
\* lists.
None == [type |-> "NoneType", num |-> 0, parses |-> FALSE]
Number(n) == [type |-> "number", num |-> n, parses |-> TRUE]
NumericStr(n) == [type |-> "str", num |-> n, parses |-> TRUE]
OtherStr == [type |-> "str", num |-> 0, parses |-> FALSE]
List == [type |-> "list", num |-> 0, parses |-> FALSE]

PyValues == {None, OtherStr, List, NumericStr(MaxDim)}
                \cup {Number(n) : n \in -1..MaxDim}

Shapes == {<<h, w>> : h \in 1..MaxDim, w \in 1..MaxDim}

NoException == [exc |-> "none", msg |-> ""]
ImageProcessorError(m) == [exc |-> "ImageProcessorError", msg |-> m]
TypeError == [exc |-> "TypeError", msg |-> ""]

\* int(v) and float(v) on the values above: the number, or the exception.
Convert(v) ==
    IF v.type = "number" THEN [exc |-> "none", num |-> v.num]
    ELSE IF v.type = "str"
         THEN IF v.parses THEN [exc |-> "none", num |-> v.num]
              ELSE [exc |-> "ValueError", num |-> 0]
         ELSE [exc |-> "TypeError", num |-> 0]

\* resize: the exception it ends in and the shape of self.image after it.
resize(shape, new_width_, new_height_, scale_) ==
    IF new_width_ # None /\ new_height_ # None THEN
        LET w == Convert(new_width_)
            h == Convert(new_height_)
            msg == "Width and height must be positive integers."
        IN  IF w.exc = "ValueError" THEN <<ImageProcessorError(msg), shape>>
            ELSE IF w.exc = "TypeError" THEN <<TypeError, shape>>
            ELSE IF h.exc = "ValueError" THEN <<ImageProcessorError(msg), shape>>
            ELSE IF h.exc = "TypeError" THEN <<TypeError, shape>>
            ELSE IF w.num <= 0 \/ h.num <= 0 THEN <<ImageProcessorError(msg), shape>>
            ELSE <<NoException, <<h.num, w.num>> >>
    ELSE IF scale_ # None THEN
        LET f == Convert(scale_)
            msg == "Scale must be a positive number."
        IN  IF f.exc = "ValueError" THEN <<ImageProcessorError(msg), shape>>
            ELSE IF f.exc = "TypeError" THEN <<TypeError, shape>>
            ELSE IF f.num <= 0 THEN <<ImageProcessorError(msg), shape>>
            ELSE <<NoException, <<shape[1] * f.num, shape[2] * f.num>> >>
    ELSE <<NoException, shape>>

(* ---------------------------------------------------------------------- *)
(* State                                                                   *)
(* ---------------------------------------------------------------------- *)
VARIABLES
    pc,               \* "loop" while start_feed reads frames, "done" after the loop
    frame_skip_rate,  \* parameter of start_feed
    frame_count,      \* the number of frames cap.read() delivers
    detectable,       \* the boxes find_faces may return in this session
    frame_id,         \* start_feed's frame counter
    face_tracker,     \* the registry: sequence of <<box, count>>
    faces,            \* the boxes drawn on every frame
    faces_bound,      \* whether the local variable faces has been assigned
    new_faces,        \* the detection batch of the latest sampling round
    tracked_before,   \* history: the registry handed to the latest update
    rounds,           \* history: the number of sampling rounds so far
    linked,           \* history: linked[k] is the number of consecutive rounds,
                      \* ending with the latest, whose batches hold a chain of
                      \* overlapping detections that ends in new_faces[k]
    uniform,          \* history: every batch so far equals new_faces
    detected,         \* history: the number of detections so far
    boxA, boxB,       \* arguments of a call of calculate_IoU
    iou_pc,           \* "call" before that call, "return" after it, "idle" if none
    iou,              \* its return value
    image,            \* ImageProcessor: the shape <<height, width>> of self.image
    image_before,     \* history: image when resize was called
    new_width, new_height, scale,   \* arguments of a call of resize
    resize_pc,        \* "call" before that call, "return" after it, "idle" if none
    raised            \* the exception resize ended in, NoException if none

feedVars == <<pc, frame_skip_rate, frame_count, detectable, frame_id, face_tracker, faces, faces_bound,
              new_faces, tracked_before, rounds, linked, uniform, detected>>
iouVars == <<boxA, boxB, iou_pc, iou>>
resizeVars == <<image, image_before, new_width, new_height, scale, resize_pc, raised>>
vars == <<pc, frame_skip_rate, frame_count, detectable, frame_id, face_tracker, faces, faces_bound,
          new_faces, tracked_before, rounds, linked, uniform, detected,
          boxA, boxB, iou_pc, iou,
          image, image_before, new_width, new_height, scale, resize_pc, raised>>

\* calculate_IoU(d, e) > 0.2
Overlaps(d, e) == GreaterThan(calculate_IoU(d, e), Threshold)

RECURSIVE MaxOf(_)
MaxOf(S) == IF S = {} THEN 0
            ELSE LET x == CHOOSE y \in S : TRUE
                 IN  Max(x, MaxOf(S \ {x}))

\* The value of linked after a round with the batch found.
Link(found) ==
    [k \in 1..Len(found) |->
        1 + MaxOf({linked[j] : j \in {i \in 1..Len(new_faces) :
                                         Overlaps(found[k], new_faces[i])}})]

(* ---------------------------------------------------------------------- *)
(* start_feed                                                              *)
(* ---------------------------------------------------------------------- *)
\* The locals of start_feed before the loop.
Locals ==
    /\ frame_id = 0
    /\ face_tracker = <<>>
    /\ faces = <<>>
    /\ faces_bound = FALSE
    /\ new_faces = <<>>
    /\ tracked_before = <<>>
    /\ rounds = 0
    /\ linked = <<>>
    /\ uniform = TRUE
    /\ detected = 0

InitFeed ==
    /\ pc = "loop"
    /\ Locals

IoUIdle ==
    /\ boxA = <<0, 0, 0, 0>>
    /\ boxB = <<0, 0, 0, 0>>
    /\ iou_pc = "idle"
    /\ iou = Zero

ResizeIdle ==
    /\ image = <<1, 1>>
    /\ image_before = <<1, 1>>
    /\ new_width = None
    /\ new_height = None
    /\ scale = None
    /\ resize_pc = "idle"
    /\ raised = NoException

Init ==
    /\ InitFeed
    /\ frame_skip_rate \in 1..MaxSkip
    /\ frame_count = MaxFrames
    /\ detectable = DetBoxes
    /\ IoUIdle
    /\ ResizeIdle

\* A frame on which detection runs: find_faces, identify_valid_faces, the
\* filter on count > 2, draw_faces, frame_id += 1.
SampleFrame ==
    /\ pc = "loop"
    /\ frame_id < frame_count
    /\ frame_id % frame_skip_rate = 0
    /\ \E found \in Batches[detectable][MaxDetections - detected] :
         LET new_face_tracker == identify_valid_faces(face_tracker, found)
         IN  /\ face_tracker' = new_face_tracker
             /\ faces' = RenderedFaces(new_face_tracker)
             /\ new_faces' = found
             /\ linked' = Link(found)
             /\ uniform' = (rounds = 0 \/ (uniform /\ found = new_faces))
             /\ detected' = detected + Len(found)
    /\ tracked_before' = face_tracker
    /\ rounds' = rounds + 1
    /\ faces_bound' = TRUE
    /\ frame_id' = frame_id + 1
    /\ UNCHANGED <<pc, frame_skip_rate, frame_count, detectable>>
    /\ UNCHANGED iouVars
    /\ UNCHANGED resizeVars

\* A skipped frame that starts from an empty faces buffer.
SkipFrameClearing ==
    /\ pc = "loop"
    /\ frame_id < frame_count
    /\ frame_id % frame_skip_rate # 0
    /\ faces' = <<>>
    /\ frame_id' = frame_id + 1
    /\ UNCHANGED <<pc, frame_skip_rate, frame_count, detectable, face_tracker,
                   faces_bound, new_faces, tracked_before, rounds, linked,
                   uniform, detected>>
    /\ UNCHANGED iouVars
    /\ UNCHANGED resizeVars

\* A frame on which detection is skipped: draw_faces with the buffered
\* faces, frame_id += 1. Reading faces before its first assignment raises
\* UnboundLocalError and ends start_feed.
SkipFrame ==
    /\ pc = "loop"
    /\ frame_id < frame_count
    /\ frame_id % frame_skip_rate # 0
    /\ IF faces_bound
       THEN frame_id' = frame_id + 1 /\ pc' = pc
       ELSE frame_id' = frame_id /\ pc' = "UnboundLocalError"
    /\ UNCHANGED <<frame_skip_rate, frame_count, detectable, face_tracker,
                   faces, faces_bound, new_faces, tracked_before, rounds, linked,
                   uniform, detected>>
    /\ UNCHANGED iouVars
    /\ UNCHANGED resizeVars

\* cap.read() fails or 'q' is pressed: the loop ends, start_feed returns
\* and its locals are gone.
Stop ==
    /\ pc = "loop"
    /\ pc' = "done"
    /\ frame_id' = 0
    /\ face_tracker' = <<>>
    /\ faces' = <<>>
    /\ faces_bound' = FALSE
    /\ new_faces' = <<>>
    /\ tracked_before' = <<>>
    /\ rounds' = 0
    /\ linked' = <<>>
    /\ uniform' = TRUE
    /\ detected' = 0
    /\ UNCHANGED <<frame_skip_rate, frame_count, detectable>>
    /\ UNCHANGED iouVars
    /\ UNCHANGED resizeVars

Next == SampleFrame \/ SkipFrame \/ Stop

Spec == Init /\ [][Next]_vars

\* A video twice as long, sampled at the largest skip rate.
InitLong ==
    /\ InitFeed
    /\ frame_skip_rate = MaxSkip
    /\ frame_count = 2 * MaxFrames
    /\ detectable = DetBoxes
    /\ IoUIdle
    /\ ResizeIdle

SpecLong == InitLong /\ [][Next]_vars

\* A session of zero-area detections.
InitDegenerate ==
    /\ InitFeed
    /\ frame_skip_rate \in 1..MaxSkip
    /\ frame_count = MaxFrames
    /\ detectable = DegBoxes
    /\ IoUIdle
    /\ ResizeIdle

SpecDegenerate == InitDegenerate /\ [][Next]_vars

\* A session in which the detector hands over malformed boxes.
InitMalformed ==
    /\ InitFeed
    /\ frame_skip_rate \in 1..MaxSkip
    /\ frame_count = MaxFrames
    /\ detectable = AnyBoxes
    /\ IoUIdle
    /\ ResizeIdle

SpecMalformed == InitMalformed /\ [][Next]_vars

(* ---------------------------------------------------------------------- *)
(* calculate_IoU called on its own with any pair of valid boxes            *)
(* ---------------------------------------------------------------------- *)
InitIoU ==
    /\ InitFeed
    /\ frame_skip_rate = 1
    /\ frame_count = 0
    /\ detectable = {}
    /\ boxA \in IoUBoxes
    /\ boxB \in IoUBoxes
    /\ iou_pc = "call"
    /\ iou = Zero
    /\ ResizeIdle

CallIoU ==
    /\ iou_pc = "call"
    /\ iou' = calculate_IoU(boxA, boxB)
    /\ iou_pc' = "return"
    /\ UNCHANGED <<boxA, boxB>>
    /\ UNCHANGED feedVars
    /\ UNCHANGED resizeVars

NextIoU == CallIoU

SpecIoU == InitIoU /\ [][NextIoU]_vars

(* ---------------------------------------------------------------------- *)
(* ImageProcessor.resize called on its own                                 *)
(* ---------------------------------------------------------------------- *)
InitResize ==
    /\ InitFeed
    /\ frame_skip_rate = 1
    /\ frame_count = 0
    /\ detectable = {}
    /\ IoUIdle
    /\ image \in Shapes
    /\ image_before = image
    /\ new_width \in PyValues
    /\ new_height \in PyValues
    /\ scale \in PyValues
    /\ resize_pc = "call"
    /\ raised = NoException

CallResize ==
    /\ resize_pc = "call"
    /\ LET result == resize(image, new_width, new_height, scale)
       IN  /\ raised' = result[1]
           /\ image' = result[2]
    /\ resize_pc' = "return"
    /\ UNCHANGED <<image_before, new_width, new_height, scale>>
    /\ UNCHANGED feedVars
    /\ UNCHANGED iouVars

NextResize == CallResize

SpecResize == InitResize /\ [][NextResize]_vars

(* ---------------------------------------------------------------------- *)
(* Properties of the tracker (checked under Spec)                          *)
(* ---------------------------------------------------------------------- *)
\* The positions of the entries of registry t that detection d overlaps.
Eligible(d, t) == {i \in 1..Len(t) : Overlaps(d, t[i][1])}

Least(S) == CHOOSE i \in S : \A j \in S : i <= j

\* C1: every detection that overlaps (IoU > 0.2) some entry of the previous
\* registry gets the count of the FIRST such entry plus one, whatever the
\* IoU or the count of the later entries.
C1_FirstMatch ==
    \A k \in 1..Len(new_faces) :
        LET d == new_faces[k]
            E == Eligible(d, tracked_before)
        IN  E # {} => /\ k <= Len(face_tracker)
                      /\ face_tracker[k] = <<d, tracked_before[Least(E)][2] + 1>>

\* A detection whose first eligible entry has a smaller IoU and another
\* count than a later eligible entry, and got the first entry's count.
C1_Witness ==
    \E k \in 1..Len(new_faces) :
        LET d == new_faces[k]
            E == Eligible(d, tracked_before)
        IN  /\ E # {}
            /\ \E j \in E :
                 /\ j > Least(E)
                 /\ GreaterThan(calculate_IoU(d, tracked_before[j][1]),
                                calculate_IoU(d, tracked_before[Least(E)][1]))
                 /\ tracked_before[j][2] # tracked_before[Least(E)][2]
            /\ face_tracker[k] = <<d, tracked_before[Least(E)][2] + 1>>

\* C2: the registry returned in a round has exactly one entry per
\* detection, in detection order; with the previous registry [(A,1)] and
\* the batch [A', B], A' overlapping A and B not, it is [(A',2),(B,1)] and
\* nothing is rendered.
C2_OneEntryPerDetection ==
    /\ Len(face_tracker) = Len(new_faces)
    /\ \A k \in 1..Len(new_faces) : face_tracker[k][1] = new_faces[k]
    /\ \A A \in DetBoxes :
         (/\ tracked_before = <<<<A, 1>>>>
          /\ Len(new_faces) = 2
          /\ Overlaps(new_faces[1], A)
          /\ ~Overlaps(new_faces[2], A))
         => /\ face_tracker = <<<<new_faces[1], 2>>, <<new_faces[2], 1>>>>
            /\ faces = <<>>

\* The example of C2 with A' # A and B a face other than A'.
C2_Witness ==
    \E A \in DetBoxes :
        /\ tracked_before = <<<<A, 1>>>>
        /\ Len(new_faces) = 2
        /\ new_faces[1] # new_faces[2]
        /\ new_faces[1] # A
        /\ new_faces[2][3] > 0
        /\ Overlaps(new_faces[1], A)
        /\ ~Overlaps(new_faces[2], A)
        /\ face_tracker = <<<<new_faces[1], 2>>, <<new_faces[2], 1>>>>
        /\ faces = <<>>

\* Entry i of registry t is matched by no detection of the batch.
Unmatched(t, i, batch) == \A k \in 1..Len(batch) : ~Overlaps(batch[k], t[i][1])

\* C3: a previous entry that no detection of the batch overlaps is dropped:
\* the next registry holds detections only, and each of its counts is 1 or
\* one more than the count of a previous entry that the detection overlaps
\* (so never a count taken from the unmatched entry).
C3_UnmatchedDropped ==
    \A i \in 1..Len(tracked_before) :
        Unmatched(tracked_before, i, new_faces) =>
          /\ Len(face_tracker) = Len(new_faces)
          /\ \A k \in 1..Len(face_tracker) :
               /\ face_tracker[k][1] = new_faces[k]
               /\ \/ face_tracker[k][2] = 1
                  \/ \E j \in 1..Len(tracked_before) :
                       /\ j # i
                       /\ Overlaps(new_faces[k], tracked_before[j][1])
                       /\ face_tracker[k][2] = tracked_before[j][2] + 1

\* An entry with count 2 is unmatched by a non-empty batch and the next
\* registry holds entries of count 1 only.
C3_Witness ==
    /\ \E i \in 1..Len(tracked_before) :
         /\ tracked_before[i][2] = 2
         /\ Unmatched(tracked_before, i, new_faces)
    /\ face_tracker # <<>>
    /\ \A k \in 1..Len(face_tracker) : face_tracker[k][2] = 1

\* The boxes of the entries of registry t whose count is > 2, in order.
Confirmed(t) ==
    LET keep == SelectSeq(t, LAMBDA e : e[2] > 2)
    IN  [k \in 1..Len(keep) |-> keep[k][1]]

\* C4: in every sampling round the rendered set is the boxes of the
\* registry entries with count > 2, in registry order; a rendered box is a
\* detection of the round that is linked by overlaps to a detection of the
\* round before and through it to one of the round before that; nothing is
\* rendered in the first two rounds.
C4_RenderedIsConfirmed ==
    /\ rounds >= 1 => faces_bound
    /\ faces = Confirmed(face_tracker)
    /\ rounds <= 2 => faces = <<>>
    /\ \A n \in 1..Len(faces) :
         \E k \in 1..Len(new_faces) :
            /\ new_faces[k] = faces[n]
            /\ linked[k] >= 3

\* A third round that renders one of its two entries and not the other.
C4_Witness ==
    /\ rounds = 3
    /\ Len(face_tracker) = 2
    /\ Len(faces) = 1
    /\ faces = Confirmed(face_tracker)
    /\ \E k \in 1..2 : face_tracker[k][2] <= 2 /\ face_tracker[k][1][3] > 0

\* C5: when every batch so far is the single detection b, b of positive
\* width and height, the registry after round k is [(b, k)], and from
\* round 3 on the rendered set is exactly [b].
C5_SameBoxCounts ==
    \A b \in DetBoxes :
        (/\ b[3] > 0 /\ b[4] > 0
         /\ rounds >= 1
         /\ uniform
         /\ new_faces = <<b>>)
        => /\ face_tracker = <<<<b, rounds>>>>
           /\ rounds >= 3 => faces = <<b>>
           /\ rounds < 3 => faces = <<>>

\* Three rounds of the same face: count 3, and the face is rendered.
C5_Witness ==
    \E b \in DetBoxes :
        /\ b[3] > 0 /\ b[4] > 0
        /\ rounds = 3
        /\ uniform
        /\ new_faces = <<b>>
        /\ face_tracker = <<<<b, 3>>>>
        /\ faces = <<b>>

\* The IoU of d and e is exactly 0.2: intersection area * 5 = union area.
ExactlyFifth(d, e) ==
    /\ UnionArea(d, e) > 0
    /\ 5 * IntersectionArea(d, e) = UnionArea(d, e)

\* The IoU of d and e is strictly above 0.2, in integers.
AboveFifth(d, e) == 5 * IntersectionArea(d, e) > UnionArea(d, e)

\* C6: an entry whose IoU with the detection is exactly 0.2 is not a
\* match: if no entry has an IoU strictly above 0.2 the detection gets
\* count 1, otherwise it gets the count of the first entry strictly above
\* 0.2 plus one.
C6_ExactThresholdNoMatch ==
    \A k \in 1..Len(new_faces) :
        LET d == new_faces[k]
            above == {j \in 1..Len(tracked_before) :
                        AboveFifth(d, tracked_before[j][1])}
        IN  (\E i \in 1..Len(tracked_before) : ExactlyFifth(d, tracked_before[i][1]))
            => face_tracker[k] =
                 IF above = {} THEN <<d, 1>>
                 ELSE <<d, tracked_before[Least(above)][2] + 1>>

\* A detection meets an entry of count 2 at exactly 0.2, nothing above,
\* and starts at count 1.
C6_Witness ==
    \E k \in 1..Len(new_faces) :
        LET d == new_faces[k]
        IN  /\ \E i \in 1..Len(tracked_before) :
                 ExactlyFifth(d, tracked_before[i][1]) /\ tracked_before[i][2] = 2
            /\ \A j \in 1..Len(tracked_before) : ~AboveFifth(d, tracked_before[j][1])
            /\ face_tracker[k] = <<d, 1>>

\* A detection meets an entry at exactly 0.2 and a later one above 0.2,
\* and continues the later one.
C6_WitnessLater ==
    \E k \in 1..Len(new_faces) :
        LET d == new_faces[k]
        IN  /\ Len(tracked_before) = 2
            /\ ExactlyFifth(d, tracked_before[1][1])
            /\ AboveFifth(d, tracked_before[2][1])
            /\ tracked_before[1][2] # tracked_before[2][2]
            /\ face_tracker[k] = <<d, tracked_before[2][2] + 1>>

(* ---------------------------------------------------------------------- *)
(* Properties of calculate_IoU (checked under SpecIoU)                     *)
(* ---------------------------------------------------------------------- *)
Area(b) == b[3] * b[4]

\* Width and height of the intersection rectangle before clamping.
RawWidth(a, b) == Min(a[1] + a[3], b[1] + b[3]) - Max(a[1], b[1])
RawHeight(a, b) == Min(a[2] + a[4], b[2] + b[4]) - Max(a[2], b[2])

\* C7: for valid boxes the result lies in [0.0, 1.0]: the clamped
\* intersection area is >= 0 and at most the union area.
C7_IoUInUnitInterval ==
    iou_pc = "return" =>
        /\ iou.den > 0
        /\ 0 <= iou.num
        /\ iou.num <= iou.den
        /\ IntersectionArea(boxA, boxB) >= 0
        /\ IntersectionArea(boxA, boxB) <= UnionArea(boxA, boxB)

\* Two boxes of positive area apart on one axis only: the raw width is
\* negative, the raw height positive, and the result is 0.0.
C7_Witness ==
    /\ iou_pc = "return"
    /\ Area(boxA) > 0 /\ Area(boxB) > 0
    /\ RawWidth(boxA, boxB) < 0
    /\ RawHeight(boxA, boxB) > 0
    /\ iou = Zero

\* C8: no division by zero: the result is never the ZeroDivisionError, and
\* whenever the union area is 0, which is whenever both boxes have zero
\* area, it is 0.0.
C8_NoDivisionByZero ==
    /\ iou # ZeroDivisionError
    /\ iou_pc = "return" =>
         /\ (Area(boxA) = 0 /\ Area(boxB) = 0) <=> UnionArea(boxA, boxB) = 0
         /\ UnionArea(boxA, boxB) = 0 => iou = Zero

\* Two zero-area boxes at different positions, result 0.0.
C8_Witness ==
    /\ iou_pc = "return"
    /\ Area(boxA) = 0 /\ Area(boxB) = 0
    /\ boxA[1] # boxB[1] /\ boxA[2] # boxB[2]
    /\ iou = Zero

\* C9: the result is 1.0 for a box of positive width and height with
\* itself, and 0.0 whenever the intersection rectangle has zero area.
C9_IdenticalAndDisjoint ==
    iou_pc = "return" =>
        /\ (boxA = boxB /\ boxA[3] > 0 /\ boxA[4] > 0) => iou = One
        /\ (RawWidth(boxA, boxB) <= 0 \/ RawHeight(boxA, boxB) <= 0) => iou = Zero

\* A box of positive area with itself: 1.0.
C9_Witness ==
    /\ iou_pc = "return"
    /\ boxA = boxB
    /\ Area(boxA) > 1
    /\ iou = One

\* Two boxes of positive area that only touch along an edge: 0.0.
C9_WitnessTouching ==
    /\ iou_pc = "return"
    /\ Area(boxA) > 0 /\ Area(boxB) > 0
    /\ RawWidth(boxA, boxB) = 0
    /\ RawHeight(boxA, boxB) > 0
    /\ iou = Zero

\* C10: the result, the intersection area and the union area are the
\* same in both argument orders.
C10_Symmetric ==
    iou_pc = "return" =>
        /\ iou = calculate_IoU(boxB, boxA)
        /\ IntersectionArea(boxA, boxB) = IntersectionArea(boxB, boxA)
        /\ UnionArea(boxA, boxB) = UnionArea(boxB, boxA)

\* Two overlapping boxes of different areas, result strictly between 0 and 1.
C10_Witness ==
    /\ iou_pc = "return"
    /\ Area(boxA) # Area(boxB)
    /\ boxA[1] # boxB[1]
    /\ 0 < iou.num /\ iou.num < iou.den
    /\ iou = calculate_IoU(boxB, boxA)

(* ---------------------------------------------------------------------- *)
(* Edge cases of the tracker (checked under Spec)                          *)
(* ---------------------------------------------------------------------- *)
\* C11: a round that starts from the empty registry, as the first round of
\* a session does, turns every detection into an entry of count 1,
\* whatever the batch holds, and renders nothing.
C11_EmptyRegistryAllFresh ==
    /\ rounds = 1 => tracked_before = <<>>
    /\ (rounds >= 1 /\ tracked_before = <<>>) =>
         /\ face_tracker = [k \in 1..Len(new_faces) |-> <<new_faces[k], 1>>]
         /\ faces = <<>>

\* A first round with a duplicate detection and a third that overlaps it.
C11_Witness ==
    /\ rounds = 1
    /\ Len(new_faces) = 3
    /\ new_faces[1] = new_faces[2]
    /\ new_faces[3] # new_faces[1]
    /\ Overlaps(new_faces[3], new_faces[1])
    /\ face_tracker = [k \in 1..3 |-> <<new_faces[k], 1>>]
    /\ faces = <<>>

\* C12: an empty detection batch empties the registry, whatever the
\* previous registry held, and empties the rendered set; the round after
\* it starts from the empty registry, so every detection of that round,
\* re-detected or not, has count 1.
C12_EmptyBatchDropsAll ==
    /\ (rounds >= 1 /\ new_faces = <<>>) => (face_tracker = <<>> /\ faces = <<>>)
    /\ (rounds >= 1 /\ face_tracker = <<>>) => new_faces = <<>>
    /\ (rounds >= 2 /\ tracked_before = <<>>) =>
         \A k \in 1..Len(face_tracker) : face_tracker[k] = <<new_faces[k], 1>>

\* A registry of two entries, one of count 2, is dropped by an empty batch.
C12_Witness ==
    /\ rounds >= 1
    /\ new_faces = <<>>
    /\ Len(tracked_before) = 2
    /\ \E i \in 1..2 : tracked_before[i][2] = 2
    /\ face_tracker = <<>>
    /\ faces = <<>>

\* The round after an empty batch: a session of three rounds whose first
\* round detected one box, whose second detected none and whose third
\* detects a face, which starts at count 1.
C12_WitnessAfter ==
    /\ rounds = 3
    /\ tracked_before = <<>>
    /\ detected = 2
    /\ Len(new_faces) = 1
    /\ new_faces[1][3] > 0
    /\ face_tracker = <<<<new_faces[1], 1>>>>

(* ---------------------------------------------------------------------- *)
(* Frames between sampling rounds (checked under SpecLong)                 *)
(* ---------------------------------------------------------------------- *)
\* C13: a frame with frame_id % frame_skip_rate # 0 leaves the registry
\* and the rendered set as the last sampling round left them; while the
\* loop runs they change only on frames with frame_id % frame_skip_rate
\* = 0; and faces is assigned before it is first drawn, frame 0 being a
\* sampling round.
C13_SkippedFramesKeep ==
    /\ [](pc # "UnboundLocalError")
    /\ []((pc = "loop" /\ frame_id > 0) => faces_bound)
    /\ [][(pc = "loop" /\ pc' = "loop" /\ frame_id % frame_skip_rate # 0)
            => (face_tracker' = face_tracker /\ faces' = faces
                /\ frame_id' = frame_id + 1)]_vars
    /\ [][(pc' = "loop" /\ (face_tracker' # face_tracker \/ faces' # faces))
            => frame_id % frame_skip_rate = 0]_vars

\* The frame just processed was a skipped one, with a face rendered and a
\* registry of two entries.
C13_Witness ==
    /\ pc = "loop"
    /\ frame_id >= 1
    /\ (frame_id - 1) % frame_skip_rate # 0
    /\ Len(faces) = 1
    /\ Len(face_tracker) = 2

(* ---------------------------------------------------------------------- *)
(* Malformed detections (checked under SpecMalformed)                      *)
(* ---------------------------------------------------------------------- *)
Malformed(b) == b[3] < 0 \/ b[4] < 0

\* C14: a detection of negative width or height is rejected with an
\* InvalidBoxError before matching and never appears in the registry.
C14_MalformedRejected ==
    /\ (rounds >= 1 /\ \E k \in 1..Len(new_faces) : Malformed(new_faces[k]))
         => pc = "InvalidBoxError"
    /\ \A k \in 1..Len(face_tracker) : ~Malformed(face_tracker[k][1])

(* ---------------------------------------------------------------------- *)
(* ImageProcessor.resize (checked under SpecResize)                        *)
(* ---------------------------------------------------------------------- *)
\* v is not a number and does not parse as one.
NonNumeric(v) == v # None /\ ~v.parses

\* v is non-numeric, or a number <= 0.
Rejected(v) == NonNumeric(v) \/ (v.parses /\ v.num <= 0)

\* C15: resize with both new_width and new_height given, one of them
\* non-numeric or <= 0, ends in ImageProcessorError('Width and height must
\* be positive integers.'); with only a scale that is non-numeric or <= 0
\* it ends in ImageProcessorError('Scale must be a positive number.'); with
\* no arguments it raises nothing; self.image is unchanged in all three.
C15_ResizeRejects ==
    resize_pc = "return" =>
        /\ (new_width # None /\ new_height # None
              /\ (Rejected(new_width) \/ Rejected(new_height)))
           => /\ raised = ImageProcessorError("Width and height must be positive integers.")
              /\ image = image_before
        /\ (new_width = None /\ new_height = None /\ scale # None /\ Rejected(scale))
           => /\ raised = ImageProcessorError("Scale must be a positive number.")
              /\ image = image_before
        /\ (new_width = None /\ new_height = None /\ scale = None)
           => /\ raised = NoException
              /\ image = image_before

(* ---------------------------------------------------------------------- *)
(* Duplicates and counts (checked under Spec)                              *)
(* ---------------------------------------------------------------------- *)
\* The detections of the batch whose first eligible entry of registry t is
\* the entry at position i.
Claimers(t, i, batch) ==
    {k \in 1..Len(batch) :
        LET E == Eligible(batch[k], t)
        IN  E # {} /\ Least(E) = i}

\* C16: every detection of a batch whose first eligible previous entry is
\* e gets count e.count + 1, however many detections claim e, and once
\* that count exceeds 2 all of them are rendered.
C16_DuplicatesKept ==
    \A i \in 1..Len(tracked_before) :
        LET claimers == Claimers(tracked_before, i, new_faces)
            c == tracked_before[i][2] + 1
        IN  /\ \A k \in claimers : face_tracker[k] = <<new_faces[k], c>>
            /\ Cardinality({k \in 1..Len(face_tracker) : face_tracker[k][2] = c})
                 >= Cardinality(claimers)
            /\ c > 2 => Len(faces) >= Cardinality(claimers)
            /\ c > 2 => \A k \in claimers :
                          \E n \in 1..Len(faces) : faces[n] = new_faces[k]

\* Two different detections claim the one entry (a, 2): the registry holds
\* two entries with count 3 and both are rendered.
C16_Witness ==
    /\ Len(tracked_before) = 1
    /\ tracked_before[1][2] = 2
    /\ Len(new_faces) = 2
    /\ new_faces[1] # new_faces[2]
    /\ Claimers(tracked_before, 1, new_faces) = {1, 2}
    /\ face_tracker = <<<<new_faces[1], 3>>, <<new_faces[2], 3>>>>
    /\ faces = <<new_faces[1], new_faces[2]>>

\* The same with one box detected twice in the batch.
C16_WitnessEqual ==
    /\ Len(tracked_before) = 1
    /\ tracked_before[1][2] = 2
    /\ Len(new_faces) = 2
    /\ new_faces[1] = new_faces[2]
    /\ Claimers(tracked_before, 1, new_faces) = {1, 2}
    /\ faces = new_faces

\* C17: every count of the registry is an integer between 1 and the number
\* of sampling rounds performed, and an entry with count c > 1 overlaps
\* (IoU > 0.2) an entry of the preceding registry whose count is c - 1.
C17_CountsBounded ==
    \A k \in 1..Len(face_tracker) :
        LET c == face_tracker[k][2]
        IN  /\ c \in Int
            /\ 1 <= c
            /\ c <= rounds
            /\ c > 1 => \E j \in 1..Len(tracked_before) :
                          /\ tracked_before[j][2] = c - 1
                          /\ Overlaps(face_tracker[k][1], tracked_before[j][1])

\* After three rounds an entry has count 3, continuing an entry of count 2
\* with another box, next to an entry of a smaller count.
C17_Witness ==
    /\ rounds = 3
    /\ \E k \in 1..Len(face_tracker) :
         /\ face_tracker[k][2] = 3
         /\ \E j \in 1..Len(tracked_before) :
              /\ tracked_before[j][2] = 2
              /\ tracked_before[j][1] # face_tracker[k][1]
              /\ Overlaps(face_tracker[k][1], tracked_before[j][1])
    /\ \E k \in 1..Len(face_tracker) : face_tracker[k][2] < 3

(* ---------------------------------------------------------------------- *)
(* Degenerate detections (checked under SpecDegenerate)                    *)
(* ---------------------------------------------------------------------- *)
Degenerate(b) == b[3] = 0 \/ b[4] = 0

\* C18: the IoU of a box of width 0 or height 0 with every box, itself
\* included, is 0.0; such a detection overlaps no previous entry, enters
\* the registry with count 1 and is never rendered, in every round.
C18_DegenerateNeverMatches ==
    /\ \A d \in detectable : \A e \in detectable :
         Degenerate(d) => /\ calculate_IoU(d, e) = Zero
                          /\ calculate_IoU(e, d) = Zero
    /\ \A k \in 1..Len(new_faces) :
         Degenerate(new_faces[k]) =>
           /\ Eligible(new_faces[k], tracked_before) = {}
           /\ face_tracker[k] = <<new_faces[k], 1>>
           /\ \A n \in 1..Len(faces) : faces[n] # new_faces[k]

\* The same degenerate box alone in three consecutive rounds: still count 1
\* and nothing rendered.
C18_Witness ==
    \E z \in detectable :
        /\ Degenerate(z)
        /\ rounds = 3
        /\ uniform
        /\ new_faces = <<z>>
        /\ tracked_before = <<<<z, 1>>>>
        /\ face_tracker = <<<<z, 1>>>>
        /\ faces = <<>>

\* A degenerate detection in a round that renders a face.
C18_WitnessBeside ==
    /\ \E k \in 1..Len(new_faces) : Degenerate(new_faces[k])
    /\ faces # <<>>

=============================================================================
